---- MODULE Spec2Model ----
(***************************************************************************)
(* A model of sagemaker.workflow.pipeline: the interpolation engine        *)
(* (interpolate / _interpolate), Pipeline.to_request / definition, and the *)
(* remote lifecycle operations upsert, start and _PipelineExecution.wait.  *)
(*                                                                         *)
(* Python objects live in a heap (a sequence of nodes, the address of a    *)
(* node being its index), so that copying, aliasing and in-place mutation  *)
(* are visible.  A node is                                                 *)
(*    [kind, val, keys, items]                                             *)
(* where kind is "prim" (an immutable string), one of the deferred kinds   *)
(* "Parameter", "Properties", "Expression", or one of the containers       *)
(* "dict", "list", "tuple", "set"; items holds the addresses of the        *)
(* children (for a dict, keys[i] is the key of items[i]; for a set, items  *)
(* is the set's iteration order).                                          *)
(***************************************************************************)
EXTENDS Integers, Sequences, FiniteSets, TLC

VARIABLES
    heap,      \* the Python objects: a sequence of nodes indexed by address
    \* interpolate called on a document
    pc,        \* "building", "done" (interpolate has finished), "mutated"
    doc,       \* the value of request_obj when interpolate was called
    root,      \* the address of request_obj
    out,       \* what interpolate did: returned an address, or raised
    \* two Pipeline instances
    cfg,       \* cfg[p]: the parameters and steps pipeline p was constructed with
    argsAt,    \* argsAt[p][i]: the address of the arguments of step i of p
    lastOp,    \* the operation performed last, and the pipeline it was called on
    lastDef,   \* what the last definition() call returned
    \* the remote lifecycle
    invoked,      \* the Pipeline method invoked last, and the pipeline
    calls,        \* the remote calls that invocation issued, in order
    result,       \* how that invocation ended
    handle,       \* the arn of the _PipelineExecution start returned last
    wpc,          \* wait on the handle: "none", "polling", "returned", "raised"
    max_attempts, \* the max_attempts wait was called with
    polls,        \* the statuses the polls of this wait reported, in order
    waitError     \* the reason of the error wait raised

ivars == <<pc, doc, root, out>>
pvars == <<cfg, argsAt, lastOp, lastDef>>
wvars == <<wpc, max_attempts, polls, waitError>>
lvars == <<invoked, calls, result, handle, wvars>>
vars == <<heap, ivars, pvars, lvars>>

\* ---------------------------------------------------------------- bounds
\* The largest number of nodes (containers and leaves) of an input document.
MaxNodes == 4

\* ------------------------------------------------------ document values
DeferredKinds == {"Expression", "Parameter", "Properties"}
SeqKinds == {"list", "tuple"}
ContainerKinds == {"dict", "list", "tuple", "set"}
MutableKinds == {"dict", "list", "set"}

\* A document as a value: items for a dict, list or tuple, elems for a set.
Doc(k, v, ks, it, el) == [kind |-> k, val |-> v, keys |-> ks, items |-> it, elems |-> el]
Prim(s) == Doc("prim", s, <<>>, <<>>, {})
Deferred(k, s) == Doc(k, s, <<>>, <<>>, {})
DictDoc(ks, it) == Doc("dict", "", ks, it, {})
SeqDoc(k, it) == Doc(k, "", <<>>, it, {})
SetDoc(el) == Doc("set", "", <<>>, <<>>, el)

\* The key of the i-th entry of a mapping built by the caller.
KeyName(i) == "k" \o ToString(i)

Range(s) == {s[i] : i \in 1..Len(s)}

RECURSIVE HasDeferred(_)
HasDeferred(d) ==
    \/ d.kind \in DeferredKinds
    \/ \E i \in 1..Len(d.items) : HasDeferred(d.items[i])
    \/ \E e \in d.elems : HasDeferred(e)

\* ----------------------------------------------------------------- heap
HNode(k, v, ks, it) == [kind |-> k, val |-> v, keys |-> ks, items |-> it]
Res(h, r, ok) == [h |-> h, r |-> r, ok |-> ok]

\* interpolate has not been called.
NoOut == [status |-> "none", r |-> 0]

\* Allocation of a new object: its address is the next free index.
Alloc(h, n) == Res(Append(h, n), Len(h) + 1, TRUE)

\* The document value held at address a.
RECURSIVE Val(_, _)
RECURSIVE ValItems(_, _)
ValItems(h, as) ==
    IF as = <<>> THEN <<>> ELSE <<Val(h, Head(as))>> \o ValItems(h, Tail(as))
Val(h, a) ==
    LET n == h[a]
        vs == ValItems(h, n.items)
    IN  IF n.kind = "set" THEN SetDoc(Range(vs))
        ELSE Doc(n.kind, n.val, n.keys, vs, {})

\* The addresses reachable from a, a included.
RECURSIVE Reach(_, _)
Reach(h, a) == {a} \cup UNION {Reach(h, h[a].items[i]) : i \in 1..Len(h[a].items)}

\* hash(obj) succeeds: strings and plain objects hash, a tuple hashes its
\* items, dict, list and set are unhashable.
RECURSIVE Hashable(_, _)
Hashable(h, a) ==
    \/ h[a].kind = "prim"
    \/ h[a].kind \in DeferredKinds
    \/ h[a].kind = "tuple" /\ \A i \in 1..Len(h[a].items) : Hashable(h, h[a].items[i])

\* copy.deepcopy: an immutable string is returned as it is, every other
\* object is rebuilt from deep copies of its children.
RECURSIVE deepcopy(_, _)
RECURSIVE deepcopyItems(_, _)
deepcopyItems(h, as) ==
    IF as = <<>> THEN Res(h, <<>>, TRUE)
    ELSE LET c == deepcopy(h, Head(as))
         IN  IF ~c.ok THEN c
             ELSE LET rest == deepcopyItems(c.h, Tail(as))
                  IN  Res(rest.h, <<c.r>> \o rest.r, rest.ok)
deepcopy(h, a) ==
    IF h[a].kind = "prim" THEN Res(h, a, TRUE)
    ELSE LET cs == deepcopyItems(h, h[a].items)
         IN  IF ~cs.ok THEN cs ELSE Alloc(cs.h, [h[a] EXCEPT !.items = cs.r])

\* The reference path of a deferred value.
PathOf(n) == IF n.kind = "Parameter" THEN "Parameters." \o n.val ELSE n.val

\* obj.expr: a new mapping {"Get": <path>}.
expr(h, a) ==
    LET path == Alloc(h, HNode("prim", PathOf(h[a]), <<>>, <<>>))
    IN  Alloc(path.h, HNode("dict", "", <<"Get">>, <<path.r>>))

RECURSIVE interpolate(_, _)
RECURSIVE _interpolate(_, _)
RECURSIVE interpolateItems(_, _)

\* interpolate(value) for each value of a container, in iteration order; the
\* first failure ends the iteration.
interpolateItems(h, as) ==
    IF as = <<>> THEN Res(h, <<>>, TRUE)
    ELSE LET c == interpolate(h, Head(as))
         IN  IF ~c.ok THEN Res(c.h, <<>>, FALSE)
             ELSE LET rest == interpolateItems(c.h, Tail(as))
                  IN  Res(rest.h, <<c.r>> \o rest.r, rest.ok)

IsDeferredParameterOnly(n) == n.kind = "Parameter"

\* isinstance(obj, (Expression, Parameter, Properties))
IsDeferred(n) == n.kind \in {"Expression", "Parameter", "Properties"}

NewContainerAsList(n, items) ==
    HNode(IF n.kind = "dict" THEN "dict" ELSE "list", "", n.keys, items)

\* obj.__class__(...): a new container of the kind of obj, holding items
\* (under the keys of obj, for a dict).
NewContainer(n, items) == HNode(n.kind, "", n.keys, items)

\* set(...) hashes every element it is given.
Constructible(h, n, items) ==
    n.kind = "set" => \A i \in 1..Len(items) : Hashable(h, items[i])

\* A variant that rewrites list and dict entries in place and returns obj.
RECURSIVE _interpolateInPlace(_, _)
RECURSIVE inPlaceItems(_, _)
inPlaceItems(h, as) ==
    IF as = <<>> THEN Res(h, <<>>, TRUE)
    ELSE LET c == _interpolateInPlace(h, Head(as))
         IN  IF ~c.ok THEN Res(c.h, <<>>, FALSE)
             ELSE LET rest == inPlaceItems(c.h, Tail(as))
                  IN  Res(rest.h, <<c.r>> \o rest.r, rest.ok)
_interpolateInPlace(h, a) ==
    LET n == h[a]
    IN  IF IsDeferred(n) THEN expr(h, a)
        ELSE IF n.kind \in {"dict", "list", "set", "tuple"}
        THEN LET cs == inPlaceItems(h, n.items)
             IN  IF ~cs.ok \/ ~Constructible(cs.h, n, cs.r) THEN Res(cs.h, 0, FALSE)
                 ELSE IF n.kind \in {"dict", "list"}
                 THEN Res([cs.h EXCEPT ![a].items = cs.r], a, TRUE)
                 ELSE Alloc(cs.h, NewContainer(n, cs.r))
        ELSE Res(h, a, TRUE)

_interpolate(h, a) ==
    LET n == h[a]
    IN  IF IsDeferred(n) THEN expr(h, a)
        ELSE IF n.kind = "dict"
        THEN LET cs == interpolateItems(h, n.items)
             IN  IF ~cs.ok THEN Res(cs.h, 0, FALSE)
                 ELSE Alloc(cs.h, NewContainer(n, cs.r))
        ELSE IF n.kind \in {"list", "set", "tuple"}
        THEN LET cs == interpolateItems(h, n.items)
             IN  IF ~cs.ok THEN Res(cs.h, 0, FALSE)
                 ELSE IF ~Constructible(cs.h, n, cs.r)
                 THEN Res(cs.h, 0, FALSE)   \* TypeError: unhashable type
                 ELSE Alloc(cs.h, NewContainer(n, cs.r))
        ELSE Res(h, a, TRUE)

interpolate(h, a) ==
    LET request_obj_copy == deepcopy(h, a)
    IN  IF ~request_obj_copy.ok THEN request_obj_copy
        ELSE _interpolate(request_obj_copy.h, request_obj_copy.r)

\* ------------------------------------------------------------- pipelines
\* Building a document value in the heap.
RECURSIVE Load(_, _)
RECURSIVE LoadItems(_, _)
LoadItems(h, ds) ==
    IF ds = <<>> THEN Res(h, <<>>, TRUE)
    ELSE LET c == Load(h, Head(ds))
         IN  IF ~c.ok THEN c
             ELSE LET rest == LoadItems(c.h, Tail(ds))
                  IN  Res(rest.h, <<c.r>> \o rest.r, rest.ok)
Load(h, d) ==
    LET cs == LoadItems(h, d.items)
    IN  IF ~cs.ok THEN cs ELSE Alloc(cs.h, HNode(d.kind, d.val, d.keys, cs.r))

\* Two Pipeline instances: callers modify documents A returned, and B is observed.
A == 1
B == 2
Pipelines == {A, B}
PipelineName(p) == IF p = A THEN "A" ELSE "B"

\* Pipeline._version
Version == "2020-12-01"

\* Pipeline._metadata = dict(): one dict object, created when the class body
\* runs; it is the first object of the heap.
MetadataAddr == 1

\* self.name of pipeline p: a string object made when p is constructed.
NameAddr(p) == 1 + p

NoParam == ""
\* Parameter.to_request(): Name, Type and, when there is one, DefaultValue.
ParameterRequest(q) ==
    IF q.default = NoParam
    THEN DictDoc(<<"Name", "Type">>, <<Prim(q.name), Prim(q.type)>>)
    ELSE DictDoc(<<"Name", "Type", "DefaultValue">>,
                 <<Prim(q.name), Prim(q.type), Prim(q.default)>>)

\* list_to_request(self.parameters)
RECURSIVE ParameterRequests(_)
ParameterRequests(ps) ==
    IF ps = <<>> THEN <<>>
    ELSE <<ParameterRequest(Head(ps))>> \o ParameterRequests(Tail(ps))
ParametersRequest(ps) == SeqDoc("list", ParameterRequests(ps))

\* list_to_request(self.steps): one new mapping {Name, Type, Arguments} per
\* step, in a new list; Arguments is the step's own arguments object.
RECURSIVE StepRequests(_, _, _)
StepRequests(h, steps, addrs) ==
    IF steps = <<>> THEN Res(h, <<>>, TRUE)
    ELSE LET nm == Alloc(h, HNode("prim", Head(steps).name, <<>>, <<>>))
             ty == Alloc(nm.h, HNode("prim", Head(steps).type, <<>>, <<>>))
             d == Alloc(ty.h, HNode("dict", "", <<"Name", "Type", "Arguments">>,
                                    <<nm.r, ty.r, Head(addrs)>>))
         IN  IF ~d.ok THEN d
             ELSE LET rest == StepRequests(d.h, Tail(steps), Tail(addrs))
                  IN  Res(rest.h, <<d.r>> \o rest.r, rest.ok)
StepsRequest(h, steps, addrs) ==
    LET ss == StepRequests(h, steps, addrs)
    IN  IF ~ss.ok THEN ss ELSE Alloc(ss.h, HNode("list", "", <<>>, ss.r))

\* Pipeline.to_request of a pipeline constructed with c, whose steps'
\* arguments are at addrs.
to_request(h, c, addrs) ==
    LET v == Alloc(h, HNode("prim", Version, <<>>, <<>>))
        ps == Load(v.h, ParametersRequest(c.parameters))
    IN  IF ~ps.ok THEN ps
        ELSE LET ss == StepsRequest(ps.h, c.steps, addrs)
             IN  IF ~ss.ok THEN ss
                 ELSE Alloc(ss.h, HNode("dict", "",
                                        <<"Version", "Metadata", "Parameters", "Steps">>,
                                        <<v.r, MetadataAddr, ps.r, ss.r>>))

\* json.dumps accepts str, dict, list and tuple.
RECURSIVE Serializable(_)
Serializable(d) ==
    /\ d.kind \in {"prim", "dict", "list", "tuple"}
    /\ \A i \in 1..Len(d.items) : Serializable(d.items[i])

Quoted(str) == "\"" \o str \o "\""

\* json.dumps: a mapping as {"key": value, ...} in insertion order, a list or
\* a tuple as [value, ...], a string in quotes.
RECURSIVE dumps(_)
RECURSIVE dumpsItems(_, _)
dumpsItems(d, i) ==
    IF i > Len(d.items) THEN ""
    ELSE (IF i > 1 THEN ", " ELSE "")
         \o (IF d.kind = "dict" THEN Quoted(d.keys[i]) \o ": " ELSE "")
         \o dumps(d.items[i])
         \o dumpsItems(d, i + 1)
dumps(d) ==
    IF d.kind = "prim" THEN Quoted(d.val)
    ELSE IF d.kind = "dict" THEN "{" \o dumpsItems(d, 1) \o "}"
    ELSE "[" \o dumpsItems(d, 1) \o "]"

Returned(h, v) == [h |-> h, status |-> "returned", value |-> v]
Raised(h, e) == [h |-> h, status |-> e, value |-> ""]

\* json.dumps(obj) of the object at a: the string, or TypeError when an
\* object of the document is not JSON serializable.
dumpsValue(h, d) ==
    IF Serializable(d) THEN Returned(h, dumps(d)) ELSE Raised(h, "TypeError")
json_dumps(h, a) == dumpsValue(h, Val(h, a))

DumpRequest(request_dict) == json_dumps(request_dict.h, request_dict.r)
definitionWithoutInterpolate(h, c, addrs) == DumpRequest(to_request(h, c, addrs))

\* request_dict["Steps"] = steps; return json.dumps(request_dict)
SetStepsAndDump(request_dict, steps) ==
    IF ~steps.ok THEN Raised(steps.h, "TypeError")
    ELSE json_dumps([steps.h EXCEPT ![request_dict.r].items[4] = steps.r], request_dict.r)

\* interpolate(request_dict["Steps"])
InterpolateSteps(request_dict) ==
    SetStepsAndDump(request_dict,
                    interpolate(request_dict.h, request_dict.h[request_dict.r].items[4]))

\* Pipeline.definition
definition(h, c, addrs) == InterpolateSteps(to_request(h, c, addrs))

\* The objects that outlive a call: the class's metadata and the pipelines'
\* own objects; what a call allocated is dropped when it returns.
Keep(h) == SubSeq(h, 1, Len(heap))

\* The most steps of a pipeline.
MaxSteps == 1

Threshold == [name |-> "Threshold", type |-> "Float", default |-> NoParam]

\* The parameter lists a pipeline is constructed with.
ParameterLists ==
    {<<>>, <<Threshold>>,
     <<Threshold, [name |-> "p", type |-> "String", default |-> "a"]>>}

\* The arguments of a step: JSON documents that may hold deferred values.
ArgumentChoices ==
    {DictDoc(<<>>, <<>>),
     DictDoc(<<"Rate">>, <<Deferred("Parameter", "Threshold")>>),
     DictDoc(<<"In", "Out">>,
             <<SeqDoc("list", <<Deferred("Properties", "Steps.s.x"), Prim("a")>>),
               SeqDoc("tuple", <<Prim("b"), Deferred("Expression", "e")>>)>>)}

StepChoices ==
    {[name |-> "Train", type |-> "Training", arguments |-> a] : a \in ArgumentChoices}

SeqsUpTo(S, n) == UNION {[1..k -> S] : k \in 0..n}

Configs ==
    [parameters : ParameterLists,
     steps : SeqsUpTo(StepChoices, MaxSteps)]

\* The arguments of the steps of a pipeline.
RECURSIVE Arguments(_)
Arguments(steps) ==
    IF steps = <<>> THEN <<>> ELSE <<Head(steps).arguments>> \o Arguments(Tail(steps))

\* ------------------------------------------------------ remote lifecycle
\* The largest max_attempts a caller passes to wait.
MaxAttemptsBound == 3

\* What a call of the remote service comes back with: a response, a
\* ClientError carrying error["Code"] and error["Message"] (a message is a
\* sequence of words), or an exception that is not a ClientError.
Response(arn) == [kind |-> "response", code |-> "", message |-> <<>>, arn |-> arn]
ClientError(code, message) ==
    [kind |-> "ClientError", code |-> code, message |-> message, arn |-> ""]
EndpointConnectionError ==
    [kind |-> "EndpointConnectionError", code |-> "", message |-> <<>>, arn |-> ""]

Arns == {"arn:1", "arn:2"}
Codes == {"ValidationException", "ResourceNotFound"}

\* "Pipeline names must be unique within"
UniqueNames == <<"Pipeline", "names", "must", "be", "unique", "within">>

Messages ==
    {UniqueNames \o <<"an", "account">>,
     <<"Error:">> \o UniqueNames \o <<"an", "account">>,
     <<"Pipeline", "names", "must", "be", "unique">>}

Outcomes ==
    {Response(a) : a \in Arns}
    \cup {ClientError(c, m) : c \in Codes, m \in Messages}
    \cup {EndpointConnectionError}

\* The ways a second call may come back: it is made only if the first came back
\* with an outcome of kind k.
OutcomesAfter(first, k) == IF first.kind = k THEN Outcomes ELSE {first}

\* sub in msg
Contains(msg, sub) ==
    \E i \in 0..(Len(msg) - Len(sub)) : SubSeq(msg, i + 1, i + Len(sub)) = sub

\* One call of the remote service, and how it came back.
Call(op, name, outcome) == [op |-> op, name |-> name, outcome |-> outcome]

\* Pipeline.create, Pipeline.update, Pipeline.describe: one remote call each.
create(name, outcome) == Call("create_pipeline", name, outcome)
update(name, outcome) == Call("update_pipeline", name, outcome)
describe(name, outcome) == Call("describe_pipeline", name, outcome)
start_pipeline_execution(name, outcome) == Call("start_pipeline_execution", name, outcome)

\* How a method ends.
Return(v) == [status |-> "returned", value |-> v]
Raise(e) == [status |-> "raised", value |-> e]
NoResult == [status |-> "none", value |-> Response("")]

\* A call that came back with a response returns it, any other raises.
Ended(outcome) == IF outcome.kind = "response" THEN Return(outcome) ELSE Raise(outcome)

\* What a method did: the remote calls it issued, and how it ended.
Did(cs, r) == [calls |-> cs, result |-> r]

IsNameCollisionExactMessage(error) ==
    error.code = "ValidationException" /\ error.message = UniqueNames

IsNameCollisionCodeOnly(error) == error.code = "ValidationException"

\* error["Code"] == "ValidationException"
\* and "Pipeline names must be unique within" in error["Message"]
IsNameCollision(error) ==
    error.code = "ValidationException" /\ Contains(error.message, UniqueNames)

\* Pipeline.upsert, when create_pipeline comes back with created and
\* update_pipeline (if it is called) with updated.
upsert(name, created, updated) ==
    IF created.kind = "response"
    THEN Did(<<create(name, created)>>, Return(created))
    ELSE IF created.kind = "ClientError"
    THEN IF IsNameCollision(created)
         THEN Did(<<create(name, created), update(name, updated)>>, Ended(updated))
         ELSE Did(<<create(name, created)>>, Raise(created))
    ELSE Did(<<create(name, created)>>, Raise(created))

\* ValueError("This pipeline is not associated with a Pipeline in SageMaker. ...")
ValueError ==
    [kind |-> "ValueError", code |-> "",
     message |-> <<"This", "pipeline", "is", "not", "associated", "with", "a",
                   "Pipeline", "in", "SageMaker.">>,
     arn |-> ""]

\* _PipelineExecution(arn=response["PipelineExecutionArn"], ...)
_PipelineExecution(arn) ==
    [kind |-> "_PipelineExecution", code |-> "", message |-> <<>>, arn |-> arn]

startIgnoringExists(name, described, started) ==
    IF described.kind \notin {"response", "ClientError"}
    THEN Did(<<describe(name, described)>>, Raise(described))
    ELSE Did(<<describe(name, described), start_pipeline_execution(name, started)>>,
             IF started.kind = "response" THEN Return(_PipelineExecution(started.arn))
             ELSE Raise(started))

\* Pipeline.start, when describe_pipeline comes back with described and
\* start_pipeline_execution (if it is called) with started.
start(name, described, started) ==
    IF described.kind \notin {"response", "ClientError"}
    THEN Did(<<describe(name, described)>>, Raise(described))
    ELSE LET exists == described.kind # "ClientError"
         IN  IF ~exists THEN Did(<<describe(name, described)>>, Raise(ValueError))
             ELSE Did(<<describe(name, described), start_pipeline_execution(name, started)>>,
                      IF started.kind = "response"
                      THEN Return(_PipelineExecution(started.arn))
                      ELSE Raise(started))

\* PipelineExecutionStatus, as DescribePipelineExecution reports it.
Statuses == {"Executing", "Stopped", "Succeeded", "Failed"}

AcceptorsWithoutFailed == <<[expected |-> "Succeeded", state |-> "success"]>>

\* The acceptors of the waiter "PipelineExecutionComplete".
Acceptors ==
    <<[expected |-> "Succeeded", state |-> "success"],
      [expected |-> "Failed", state |-> "failure"]>>

\* The state of the first acceptor that matches the reported status.
AcceptorState(status) ==
    IF \E i \in 1..Len(Acceptors) : Acceptors[i].expected = status
    THEN Acceptors[CHOOSE i \in 1..Len(Acceptors) :
                       /\ Acceptors[i].expected = status
                       /\ \A j \in 1..(i - 1) : Acceptors[j].expected # status].state
    ELSE "waiting"

\* The reasons of the waiter's errors.
TerminalFailure == "Waiter encountered a terminal failure state"
MaxAttemptsExceeded == "Max attempts exceeded"

NoInvocation == [op |-> "none", p |-> 0]

LifecycleIdle ==
    /\ invoked = NoInvocation
    /\ calls = <<>>
    /\ result = NoResult
    /\ handle = ""
    /\ wpc = "none"
    /\ max_attempts = 0
    /\ polls = <<>>
    /\ waitError = ""

NoOp == [op |-> "none", p |-> 0]
NoDef == [status |-> "none", value |-> ""]

PipelinesIdle ==
    /\ cfg = <<>>
    /\ argsAt = <<>>
    /\ lastOp = NoOp
    /\ lastDef = NoDef

InterpolateIdle ==
    /\ pc = "idle"
    /\ doc = Prim("")
    /\ root = 0
    /\ out = NoOut

\* The class body has run (_metadata = dict()) and two pipelines have been
\* constructed.
InitPipelines ==
    /\ cfg \in [Pipelines -> Configs]
    /\ LET h0 == <<HNode("dict", "", <<>>, <<>>),
                   HNode("prim", PipelineName(1), <<>>, <<>>),
                   HNode("prim", PipelineName(2), <<>>, <<>>)>>
           a1 == LoadItems(h0, Arguments(cfg[A].steps))
       IN  /\ a1.ok
           /\ LET a2 == LoadItems(a1.h, Arguments(cfg[B].steps))
              IN  /\ a2.ok
                  /\ heap = a2.h
                  /\ argsAt = <<a1.r, a2.r>>
    /\ lastOp = NoOp
    /\ lastDef = NoDef
    /\ InterpolateIdle
    /\ LifecycleIdle

\* A caller invokes p.definition().
Definition(p) ==
    /\ LET res == definition(heap, cfg[p], argsAt[p])
       IN  /\ heap' = Keep(res.h)
           /\ lastDef' = [status |-> res.status, value |-> res.value]
    /\ lastOp' = [op |-> "definition", p |-> p]
    /\ UNCHANGED <<cfg, argsAt, ivars, lvars>>

\* d[key] = value for the dict at m: a present key keeps its position.
SetItem(h, m, key, a) ==
    IF \E i \in 1..Len(h[m].keys) : h[m].keys[i] = key
    THEN [h EXCEPT ![m].items[CHOOSE i \in 1..Len(h[m].keys) : h[m].keys[i] = key] = a]
    ELSE [h EXCEPT ![m] = [@ EXCEPT !.keys = Append(@, key), !.items = Append(@, a)]]

\* request["Metadata"]["owner"] = name
SetOwner(request, name) ==
    SetItem(request.h, request.h[request.r].items[2], "owner", name)

\* A caller takes request = p.to_request() and sets
\* request["Metadata"]["owner"] = p.name.
ModifyReturnedMetadata(p) ==
    /\ heap' = Keep(SetOwner(to_request(heap, cfg[p], argsAt[p]), NameAddr(p)))
    /\ lastOp' = [op |-> "modify", p |-> p]
    /\ UNCHANGED <<cfg, argsAt, lastDef, ivars, lvars>>

NextPipelines == (\E p \in Pipelines : Definition(p)) \/ ModifyReturnedMetadata(A)

SpecPipelines == InitPipelines /\ [][NextPipelines]_vars

\* ------------------------------------------------- interpolation behaviour
\* The objects a caller puts into a request document: a string, a deferred
\* value, or an empty container.
NewNodes ==
    {HNode("prim", "a", <<>>, <<>>), HNode("Parameter", "p", <<>>, <<>>),
     HNode("Properties", "Steps.s.x", <<>>, <<>>), HNode("Expression", "e", <<>>, <<>>)}
    \cup {HNode(k, "", <<>>, <<>>) : k \in ContainerKinds}

\* The containers of the document at a that are still being filled: a and,
\* recursively, its last child.
RECURSIVE Spine(_, _)
Spine(h, a) ==
    IF h[a].kind \notin ContainerKinds THEN {}
    ELSE {a} \cup (IF h[a].items = <<>> THEN {} ELSE Spine(h, h[a].items[Len(h[a].items)]))

\* A document Python can hold: the elements of every set are hashable and
\* pairwise different.
WellFormed(h, a) ==
    \A s \in Reach(h, a) :
        h[s].kind = "set" =>
            /\ \A i \in 1..Len(h[s].items) : Hashable(h, h[s].items[i])
            /\ \A i, j \in 1..Len(h[s].items) :
                   i # j => Val(h, h[s].items[i]) # Val(h, h[s].items[j])

InitInterpolate ==
    /\ \E n \in NewNodes : heap = <<n>>
    /\ root = 1
    /\ pc = "building"
    /\ doc = Val(heap, root)
    /\ out = NoOut
    /\ PipelinesIdle
    /\ LifecycleIdle

\* The caller builds request_obj, one object at a time, left to right.
Build ==
    /\ pc = "building"
    /\ Len(heap) < MaxNodes
    /\ \E a \in Spine(heap, root), n \in NewNodes :
          heap' = [Append(heap, n) EXCEPT ![a] =
                      [@ EXCEPT !.items = Append(@, Len(heap) + 1),
                                !.keys = IF heap[a].kind = "dict"
                                         THEN Append(@, KeyName(Len(heap[a].items) + 1))
                                         ELSE @]]
    /\ doc' = Val(heap', root)
    /\ UNCHANGED <<pc, root, out, pvars, lvars>>

\* The caller invokes interpolate(request_obj).
Interpolate ==
    /\ pc = "building"
    /\ WellFormed(heap, root)
    /\ LET res == interpolate(heap, root)
       IN  /\ heap' = res.h
           /\ out' = IF res.ok THEN [status |-> "returned", r |-> res.r]
                     ELSE [status |-> "TypeError", r |-> 0]
    /\ pc' = "done"
    /\ UNCHANGED <<doc, root, pvars, lvars>>

Marker == HNode("prim", "mutated", <<>>, <<>>)

\* The caller changes a mutable container of the returned document in place
\* (new["mutated"] = "mutated", new.append("mutated"), new.add("mutated")).
MutateResult ==
    /\ pc = "done"
    /\ out.status = "returned"
    /\ \E a \in Reach(heap, out.r) :
          /\ heap[a].kind \in MutableKinds
          /\ heap' = [Append(heap, Marker) EXCEPT ![a] =
                            [@ EXCEPT !.items = Append(@, Len(heap) + 1),
                                      !.keys = IF heap[a].kind = "dict"
                                               THEN Append(@, "mutated") ELSE @]]
    /\ pc' = "mutated"
    /\ UNCHANGED <<doc, root, out, pvars, lvars>>

NextInterpolate == Build \/ Interpolate \/ MutateResult

SpecInterpolate == InitInterpolate /\ [][NextInterpolate]_vars

\* ---------------------------------------------------- lifecycle behaviour
InitLifecycle ==
    /\ heap = <<>>
    /\ InterpolateIdle
    /\ PipelinesIdle
    /\ LifecycleIdle

\* A caller invokes p.upsert(role_arn).
Upsert(p) ==
    /\ wpc # "polling"
    /\ \E created \in Outcomes : \E updated \in OutcomesAfter(created, "ClientError") :
          LET did == upsert(PipelineName(p), created, updated)
          IN  /\ calls' = did.calls
              /\ result' = did.result
    /\ invoked' = [op |-> "upsert", p |-> p]
    /\ UNCHANGED <<handle, wvars, heap, ivars, pvars>>

\* A caller invokes p.start(); what it returns is a new execution handle.
Start(p) ==
    /\ wpc # "polling"
    /\ \E described \in Outcomes : \E started \in OutcomesAfter(described, "response") :
          LET did == start(PipelineName(p), described, started)
          IN  /\ calls' = did.calls
              /\ result' = did.result
              /\ IF did.result.status = "returned"
                 THEN /\ handle' = did.result.value.arn
                      /\ wpc' = "none"
                      /\ max_attempts' = 0
                      /\ polls' = <<>>
                      /\ waitError' = ""
                 ELSE UNCHANGED <<handle, wvars>>
    /\ invoked' = [op |-> "start", p |-> p]
    /\ UNCHANGED <<heap, ivars, pvars>>

\* A caller invokes wait(max_attempts=n) on the execution handle.
Wait(n) ==
    /\ handle # ""
    /\ wpc # "polling"
    /\ wpc' = "polling"
    /\ max_attempts' = n
    /\ polls' = <<>>
    /\ waitError' = ""
    /\ UNCHANGED <<invoked, calls, result, handle, heap, ivars, pvars>>

\* One attempt of the waiter: DescribePipelineExecution reports a status, the
\* acceptors are matched against it, and the attempts are counted.
Poll ==
    /\ wpc = "polling"
    /\ \E status \in Statuses :
          LET num_attempts == Len(polls) + 1
              current_state == AcceptorState(status)
          IN  /\ polls' = Append(polls, status)
              /\ IF current_state = "success"
                 THEN wpc' = "returned" /\ waitError' = ""
                 ELSE IF current_state = "failure"
                 THEN wpc' = "raised" /\ waitError' = TerminalFailure
                 ELSE IF num_attempts >= max_attempts
                 THEN wpc' = "raised" /\ waitError' = MaxAttemptsExceeded
                 ELSE wpc' = "polling" /\ waitError' = ""
    /\ UNCHANGED <<invoked, calls, result, handle, max_attempts, heap, ivars, pvars>>

NextLifecycle ==
    \/ \E p \in Pipelines : Upsert(p)
    \/ \E p \in Pipelines : Start(p)
    \/ \E n \in 1..MaxAttemptsBound : Wait(n)
    \/ Poll

SpecLifecycle == InitLifecycle /\ [][NextLifecycle]_vars

\* ------------------------------------------------ claims on interpolation
\* The expression the specification gives a deferred value: the one-key
\* mapping {"Get": <reference path>}.
ExprDoc(d) ==
    DictDoc(<<"Get">>,
            <<Prim(IF d.kind = "Parameter" THEN "Parameters." \o d.val ELSE d.val)>>)

\* r is d with deferred values replaced pointwise and the shape kept.
RECURSIVE Pointwise(_, _)
Pointwise(d, r) ==
    IF d.kind \in DeferredKinds THEN r = ExprDoc(d)
    ELSE IF d.kind = "prim" THEN r = d
    ELSE IF d.kind = "set"
    THEN /\ r.kind = "set"
         /\ \A e \in d.elems : \E f \in r.elems : Pointwise(e, f)
         /\ \A f \in r.elems : \E e \in d.elems : Pointwise(e, f)
    ELSE /\ r.kind = d.kind
         /\ r.keys = d.keys
         /\ Len(r.items) = Len(d.items)
         /\ \A i \in 1..Len(d.items) : Pointwise(d.items[i], r.items[i])

RECURSIVE Depth(_)
Depth(d) ==
    IF d.items = <<>> /\ d.elems = {} THEN 1
    ELSE 1 + (CHOOSE m \in 1..MaxNodes + 1 :
                 /\ \A i \in 1..Len(d.items) : Depth(d.items[i]) <= m
                 /\ \A e \in d.elems : Depth(e) <= m
                 /\ \/ \E i \in 1..Len(d.items) : Depth(d.items[i]) = m
                    \/ \E e \in d.elems : Depth(e) = m)

Finished == pc \in {"done", "mutated"}

\* C5: interpolate never mutates its input, and the containers it returns are
\* independent copies: once interpolate has finished, and whatever the caller
\* then changes in the returned document, the input document holds what it
\* held at the call, and the result shares no object with the input other
\* than immutable strings.
C5_InputNeverMutated ==
    Finished =>
        /\ Val(heap, root) = doc
        /\ out.status = "returned" =>
              \A a \in Reach(heap, out.r) \cap Reach(heap, root) : heap[a].kind = "prim"

C5_Witness ==
    /\ pc = "mutated"
    /\ HasDeferred(doc)
    /\ Depth(doc) >= 3
    /\ Val(heap, out.r) # doc

\* C6: for a document without deferred values interpolate returns, and what
\* it returns equals the document, container kinds included.
C6_IdentityWithoutDeferred ==
    (pc = "done" /\ ~HasDeferred(doc)) =>
        /\ out.status = "returned"
        /\ Val(heap, out.r) = doc

C6_Witness ==
    /\ pc = "done"
    /\ ~HasDeferred(doc)
    /\ doc.kind = "list"
    /\ \E i \in 1..Len(doc.items) : doc.items[i].kind = "tuple" /\ doc.items[i].items # <<>>
    /\ out.status = "returned"

\* C7: what interpolate returns has the shape of its input: a mapping keeps
\* its keys in order, a list or tuple its kind, length and positions, every
\* deferred value is replaced by its expression, everything else is unchanged,
\* and no deferred value is left at any depth.
C7_PointwiseReplacement ==
    (pc = "done" /\ out.status = "returned") =>
        /\ Pointwise(doc, Val(heap, out.r))
        /\ ~HasDeferred(Val(heap, out.r))

C7_Witness ==
    /\ pc = "done"
    /\ out.status = "returned"
    /\ doc.kind = "list"
    /\ Len(doc.items) = 3
    /\ doc.items[1].kind = "prim"
    /\ doc.items[2].kind = "Properties"
    /\ doc.items[3].kind = "prim"

\* C10 (as claimed): interpolate is total: on every finite document it
\* returns, with a container of the kind it was given.
C10_Total ==
    pc = "done" =>
        /\ out.status = "returned"
        /\ doc.kind \in ContainerKinds => Val(heap, out.r).kind = doc.kind

\* ---------------------------------------------------- claims on pipelines
\* d with every deferred value replaced by its expression.
RECURSIVE Replaced(_)
RECURSIVE ReplacedItems(_)
ReplacedItems(ds) ==
    IF ds = <<>> THEN <<>> ELSE <<Replaced(Head(ds))>> \o ReplacedItems(Tail(ds))
Replaced(d) ==
    IF d.kind \in DeferredKinds THEN ExprDoc(d)
    ELSE [d EXCEPT !.items = ReplacedItems(d.items)]

\* The wire form of a parameter: Name, Type and, if it has one, DefaultValue.
RECURSIVE ParameterWireForms(_)
ParameterWireForms(ps) ==
    IF ps = <<>> THEN <<>>
    ELSE <<DictDoc(IF Head(ps).default = "" THEN <<"Name", "Type">>
                   ELSE <<"Name", "Type", "DefaultValue">>,
                   IF Head(ps).default = "" THEN <<Prim(Head(ps).name), Prim(Head(ps).type)>>
                   ELSE <<Prim(Head(ps).name), Prim(Head(ps).type), Prim(Head(ps).default)>>)>>
         \o ParameterWireForms(Tail(ps))

\* The wire form of a step, its arguments interpolated.
RECURSIVE StepWireForms(_)
StepWireForms(steps) ==
    IF steps = <<>> THEN <<>>
    ELSE <<DictDoc(<<"Name", "Type", "Arguments">>,
                   <<Prim(Head(steps).name), Prim(Head(steps).type),
                     Replaced(Head(steps).arguments)>>)>>
         \o StepWireForms(Tail(steps))

\* The document definition() is to serialize for pipeline p when the metadata
\* record is meta.
ExpectedDocument(p, meta) ==
    DictDoc(<<"Version", "Metadata", "Parameters", "Steps">>,
            <<Prim("2020-12-01"),
              meta,
              SeqDoc("list", ParameterWireForms(cfg[p].parameters)),
              SeqDoc("list", StepWireForms(cfg[p].steps))>>)

DefinitionJustCalled(p) == lastOp = [op |-> "definition", p |-> p]

\* C8: definition() returns the serialization of the document with the keys
\* Version, Metadata, Parameters, Steps in this order, Version "2020-12-01",
\* the parameters' requests as they are and the steps' requests with every
\* deferred value replaced by {"Get": <path>}; it leaves the steps' arguments
\* as they were constructed, and calling it again returns the same string.
C8_Definition ==
    \A p \in Pipelines :
        DefinitionJustCalled(p) =>
            /\ lastDef = [status |-> "returned",
                          value |-> dumps(ExpectedDocument(p, Val(heap, MetadataAddr)))]
            /\ \A i \in 1..Len(cfg[p].steps) :
                   Val(heap, argsAt[p][i]) = cfg[p].steps[i].arguments
            /\ definition(heap, cfg[p], argsAt[p]).value = lastDef.value

C8_Witness ==
    /\ DefinitionJustCalled(A)
    /\ cfg[A].parameters = <<Threshold>>
    /\ Len(cfg[A].steps) = 1
    /\ cfg[A].steps[1].arguments = DictDoc(<<"Rate">>, <<Deferred("Parameter", "Threshold")>>)
    /\ lastDef.value =
          "{\"Version\": \"2020-12-01\", \"Metadata\": {}, "
          \o "\"Parameters\": [{\"Name\": \"Threshold\", \"Type\": \"Float\"}], "
          \o "\"Steps\": [{\"Name\": \"Train\", \"Type\": \"Training\", "
          \o "\"Arguments\": {\"Rate\": {\"Get\": \"Parameters.Threshold\"}}}]}"

\* C9 (as claimed): pipeline instances share no mutable state: whatever was
\* done with pipeline A and the documents it returned, B.definition() returns
\* the serialization of B as it was constructed, with the empty metadata
\* record.
C9_NoSharedState ==
    DefinitionJustCalled(B) =>
        lastDef = [status |-> "returned",
                   value |-> dumps(ExpectedDocument(B, DictDoc(<<>>, <<>>)))]

\* ---------------------------------------------------- claims on lifecycle
UpsertJustCalled == invoked.op = "upsert"
StartJustCalled == invoked.op = "start"

\* The calls of the last invocation to the remote operation op.
CallsOf(op) == {i \in 1..Len(calls) : calls[i].op = op}

\* The create_pipeline call of the last invocation failed with a ClientError
\* of code "ValidationException" whose message contains "Pipeline names must
\* be unique within".
CreateCollided ==
    /\ calls # <<>>
    /\ calls[1].op = "create_pipeline"
    /\ calls[1].outcome.kind = "ClientError"
    /\ calls[1].outcome.code = "ValidationException"
    /\ \E i \in 1..Len(calls[1].outcome.message) :
          /\ i + 5 <= Len(calls[1].outcome.message)
          /\ calls[1].outcome.message[i] = "Pipeline"
          /\ calls[1].outcome.message[i + 1] = "names"
          /\ calls[1].outcome.message[i + 2] = "must"
          /\ calls[1].outcome.message[i + 3] = "be"
          /\ calls[1].outcome.message[i + 4] = "unique"
          /\ calls[1].outcome.message[i + 5] = "within"

\* C1: upsert first issues one create_pipeline call for the pipeline's name;
\* if that call fails with the name-collision validation error, upsert issues
\* exactly one update_pipeline call, after it, and no further create_pipeline
\* call, and ends as the update call ends: it returns the update's response.
C1_UpsertFallsBackToUpdate ==
    UpsertJustCalled =>
        /\ calls # <<>>
        /\ calls[1] = [op |-> "create_pipeline", name |-> PipelineName(invoked.p),
                       outcome |-> calls[1].outcome]
        /\ CreateCollided =>
              /\ CallsOf("create_pipeline") = {1}
              /\ CallsOf("update_pipeline") = {2}
              /\ Len(calls) = 2
              /\ calls[2].name = PipelineName(invoked.p)
              /\ calls[2].outcome.kind = "response" =>
                    result = [status |-> "returned", value |-> calls[2].outcome]
              /\ calls[2].outcome.kind # "response" =>
                    result = [status |-> "raised", value |-> calls[2].outcome]

C1_Witness ==
    /\ UpsertJustCalled
    /\ CreateCollided
    /\ calls[1].outcome.message[1] = "Error:"
    /\ Len(calls) = 2
    /\ calls[2].op = "update_pipeline"
    /\ result = [status |-> "returned", value |-> Response("arn:2")]

\* C2: when the create_pipeline call of upsert fails with any failure other
\* than the name-collision validation error, upsert issues no update_pipeline
\* call and raises that same failure.
C2_OtherFailuresPropagate ==
    (UpsertJustCalled /\ calls[1].outcome.kind # "response" /\ ~CreateCollided) =>
        /\ CallsOf("update_pipeline") = {}
        /\ Len(calls) = 1
        /\ result = [status |-> "raised", value |-> calls[1].outcome]

C2_Witness ==
    /\ UpsertJustCalled
    /\ calls[1].outcome.kind = "ClientError"
    /\ calls[1].outcome.code = "ValidationException"
    /\ calls[1].outcome.message = <<"Pipeline", "names", "must", "be", "unique">>
    /\ result = [status |-> "raised", value |-> calls[1].outcome]

\* A start_pipeline_execution call is issued only after a describe_pipeline
\* call for the same name has come back with a response.
StartOnlyAfterDescribe ==
    \A i \in CallsOf("start_pipeline_execution") :
        \E j \in 1..(i - 1) :
            /\ calls[j].op = "describe_pipeline"
            /\ calls[j].name = calls[i].name
            /\ calls[j].outcome.kind = "response"

\* C3 (as claimed): start issues start_pipeline_execution only after a
\* describe_pipeline call for the same name has succeeded; if the describe
\* call fails, start raises the descriptive local error and issues no
\* start_pipeline_execution call.
C3_StartRequiresDescribe ==
    StartJustCalled =>
        /\ StartOnlyAfterDescribe
        /\ calls[1].outcome.kind # "response" =>
              /\ result = [status |-> "raised", value |-> ValueError]
              /\ CallsOf("start_pipeline_execution") = {}

\* C3 (amended): start issues start_pipeline_execution only after a
\* describe_pipeline call for the same name has succeeded; if the describe
\* call fails with a ClientError, start raises the descriptive local error, if
\* it fails with any other exception, start raises that exception, and in
\* both cases it issues no start_pipeline_execution call.
C3_StartRequiresDescribeClientError ==
    StartJustCalled =>
        /\ calls # <<>>
        /\ calls[1].op = "describe_pipeline"
        /\ calls[1].name = PipelineName(invoked.p)
        /\ StartOnlyAfterDescribe
        /\ calls[1].outcome.kind # "response" =>
              /\ CallsOf("start_pipeline_execution") = {}
              /\ calls[1].outcome.kind = "ClientError" =>
                    result = [status |-> "raised", value |-> ValueError]
              /\ calls[1].outcome.kind # "ClientError" =>
                    result = [status |-> "raised", value |-> calls[1].outcome]

C3_Witness ==
    /\ StartJustCalled
    /\ Len(calls) = 1
    /\ calls[1].outcome.kind = "ClientError"
    /\ calls[1].outcome.code = "ResourceNotFound"
    /\ result = [status |-> "raised", value |-> ValueError]

\* A poll reported Succeeded or Failed.
Terminal(i) == polls[i] \in {"Succeeded", "Failed"}

====
